---- MODULE Spec2Model ----
(***************************************************************************)
(* Verification model of the SpamFilter core:                              *)
(*   Code/logisticReg.py            metrics engine and logistic regression *)
(*   Code/sampleWithReplacement.py  bootstrap resampler                    *)
(*   Code/classifiers/naivebayes.py Bernoulli Naive Bayes                  *)
(* Each component has its own variables and its own specification; the     *)
(* variables of the other components stay idle.                            *)
(***************************************************************************)
EXTENDS Integers, Sequences, FiniteSets

(* ---- bounds of the model ---- *)
\* number of training examples of a logistic regression fit
FitN == 2
\* number of features (without the bias) of a logistic regression fit
FitD == 1
\* largest value of fit's epochs argument
MaxEpochs == 3
\* largest number of examples of a label / prediction vector
MaxLen == 3
\* number of rows of the base matrix handed to the resampler
MaxRows == 2
\* largest number of draws of one bootstrap replicate
MaxDraws == 3
\* number of feature columns of the matrices
MaxD == 2

VARIABLES
    m_pc, m_y, m_predictions, m_error, m_metrics,
    b_pc, b_X, b_X0, b_new_instances, b_indices, b_replicate, b_i,
    n_pc, n_X, n_Y, n_ham_label, n_parameters, n_fitted, n_predicted,
    n_predictedAlt,
    p_pc, p_X, p_theta, p_add_bias, p_predictions, p_probs,
    f_pc, f_X0, f_y0, f_epochs, f_X, f_y, f_theta, f_perm, f_i, f_j,
    f_epoch_errors, f_last_epoch_error, f_result,
    f_drawn, f_rowOfX, f_rowOfY, f_visits, f_orders, f_updates

metricsVars == <<m_pc, m_y, m_predictions, m_error, m_metrics>>
bootVars == <<b_pc, b_X, b_X0, b_new_instances, b_indices, b_replicate, b_i>>
nbVars == <<n_pc, n_X, n_Y, n_ham_label, n_parameters, n_fitted, n_predicted,
           n_predictedAlt>>
predVars == <<p_pc, p_X, p_theta, p_add_bias, p_predictions, p_probs>>
fitVars == <<f_pc, f_X0, f_y0, f_epochs, f_X, f_y, f_theta, f_perm, f_i, f_j,
            f_epoch_errors, f_last_epoch_error, f_result,
            f_drawn, f_rowOfX, f_rowOfY, f_visits, f_orders, f_updates>>
vars == <<metricsVars, bootVars, nbVars, predVars, fitVars>>

(* ---- shared helpers ---- *)
BinVec(d) == [1..d -> {0, 1}]

BinMatrix(n, d) == [1..n -> BinVec(d)]

RECURSIVE SumTo(_, _)
SumTo(s, n) == IF n = 0 THEN 0 ELSE SumTo(s, n - 1) + s[n]

SumSeq(s) == SumTo(s, Len(s))

RECURSIVE SortedSeq(_)
\* the elements of a finite set of integers in increasing order
SortedSeq(S) ==
    IF S = {} THEN <<>>
    ELSE LET lo == CHOOSE x \in S : \A z \in S : x <= z
         IN <<lo>> \o SortedSeq(S \ {lo})

Range(s) == {s[k] : k \in DOMAIN s}

(***************************************************************************)
(* Metrics engine (logisticReg.py)                                         *)
(***************************************************************************)
\* y != predictions, elementwise, as a 0/1 vector
NotEqual(y, predictions) ==
    [k \in 1..Len(y) |-> IF y[k] # predictions[k] THEN 1 ELSE 0]

\* a seeded fault: the comparison inverted
computeErrorInverted(y, predictions) ==
    [num |-> Len(y) - SumSeq(NotEqual(y, predictions)), den |-> Len(y)]

\* np.mean(y != predictions): the rational num / den
computeError(y, predictions) ==
    [num |-> SumSeq(NotEqual(y, predictions)), den |-> Len(y)]

\* sklearn's confusion_matrix: one row and one column per label that occurs
\* in y or in predictions, labels in increasing order
confusion_matrix(y, predictions) ==
    LET labels == SortedSeq(Range(y) \cup Range(predictions))
        n == Len(labels)
    IN [a \in 1..n |-> [p \in 1..n |->
           Cardinality({k \in 1..Len(y) :
               y[k] = labels[a] /\ predictions[k] = labels[p]})]]

\* cm[0][0], cm[0][1], cm[1][0], cm[1][1]; indexing past a 1x1 matrix raises
computeMetrics(y, predictions) ==
    LET cm == confusion_matrix(y, predictions)
    IN IF Len(cm) < 2
       THEN [status |-> "IndexError", TP |-> 0, FP |-> 0, FN |-> 0, TN |-> 0]
       ELSE [status |-> "ok", TP |-> cm[1][1], FP |-> cm[1][2],
             FN |-> cm[2][1], TN |-> cm[2][2]]

NoError == [num |-> 0, den |-> 0]

NoMetrics == [status |-> "none", TP |-> 0, FP |-> 0, FN |-> 0, TN |-> 0]

MetricsIdle ==
    /\ m_pc = "idle"
    /\ m_y = <<>>
    /\ m_predictions = <<>>
    /\ m_error = NoError
    /\ m_metrics = NoMetrics

MetricsInit ==
    /\ m_pc = "start"
    /\ \E n \in 1..MaxLen :
         /\ m_y \in BinVec(n)
         /\ m_predictions \in BinVec(n)
    /\ m_error = NoError
    /\ m_metrics = NoMetrics

\* error = computeError(y, pred)
CallComputeError ==
    /\ m_pc = "start"
    /\ m_error' = computeError(m_y, m_predictions)
    /\ m_pc' = "error_done"
    /\ UNCHANGED <<m_y, m_predictions, m_metrics, bootVars, nbVars, predVars, fitVars>>

\* [TP, FP, FN, TN] = computeMetrics(y, pred)
CallComputeMetrics ==
    /\ m_pc = "error_done"
    /\ m_metrics' = computeMetrics(m_y, m_predictions)
    /\ m_pc' = "metrics_done"
    /\ UNCHANGED <<m_y, m_predictions, m_error, bootVars, nbVars, predVars, fitVars>>

(***************************************************************************)
(* Bootstrap resampler (sampleWithReplacement.py)                          *)
(***************************************************************************)
\* the outcomes of np.random.choice(n_instances, new_instances, replace=True)
sampleWithReplacement(n_instances, new_instances) ==
    [1..new_instances -> 0..(n_instances - 1)]

\* a seeded fault: the operands of the concatenation swapped
ConcatenateSwapped(replicate, sample) == sample \o replicate

\* np.concatenate((replicate, sample), axis=0)
Concatenate(replicate, sample) == replicate \o sample

BootIdle ==
    /\ b_pc = "idle"
    /\ b_X = <<>>
    /\ b_X0 = <<>>
    /\ b_new_instances = 0
    /\ b_indices = <<>>
    /\ b_replicate = <<>>
    /\ b_i = 0

BootInit ==
    /\ b_pc = "sample"
    /\ b_X \in BinMatrix(MaxRows, MaxD)
    /\ b_X0 = b_X
    /\ b_new_instances \in 1..MaxDraws
    /\ b_indices = <<>>
    /\ b_replicate = <<>>
    /\ b_i = 0

\* indices = sampleWithReplacement(n_instances, new_instances)
DrawIndices ==
    /\ b_pc = "sample"
    /\ b_indices' \in sampleWithReplacement(Len(b_X), b_new_instances)
    /\ b_pc' = "first"
    /\ UNCHANGED <<b_X, b_X0, b_new_instances, b_replicate, b_i, metricsVars, nbVars, predVars, fitVars>>

\* replicate = np.array([X[indices[0]]])
FirstRow ==
    /\ b_pc = "first"
    /\ b_replicate' = <<b_X[b_indices[1] + 1]>>
    /\ b_i' = 1
    /\ b_pc' = "loop"
    /\ UNCHANGED <<b_X, b_X0, b_new_instances, b_indices, metricsVars, nbVars, predVars, fitVars>>

\* one pass of: for i in range(1, new_instances)
AppendRow ==
    /\ b_pc = "loop"
    /\ b_i < b_new_instances
    /\ b_replicate' = Concatenate(b_replicate, <<b_X[b_indices[b_i + 1] + 1]>>)
    /\ b_i' = b_i + 1
    /\ UNCHANGED <<b_pc, b_X, b_X0, b_new_instances, b_indices, metricsVars, nbVars, predVars, fitVars>>

\* return replicate
ReturnReplicate ==
    /\ b_pc = "loop"
    /\ b_i >= b_new_instances
    /\ b_pc' = "done"
    /\ UNCHANGED <<b_X, b_X0, b_new_instances, b_indices, b_replicate, b_i,
                   metricsVars, nbVars, predVars, fitVars>>

(***************************************************************************)
(* Floating point values of the Naive Bayes parameters                     *)
(*                                                                         *)
(* A double is one of: NaN; the quotient num/den of two small integers;    *)
(* the tolerance 10^-e; the double nearest to 1 - 10^-e when that is not   *)
(* 1.0 itself.                                                             *)
(***************************************************************************)
NaN == [k |-> "nan", num |-> 0, den |-> 1, e |-> 0]

Frac(num, den) == [k |-> "frac", num |-> num, den |-> den, e |-> 0]

Tol(e) == [k |-> "tol", num |-> 0, den |-> 1, e |-> e]

BelowOne(e) == [k |-> "1-tol", num |-> 0, den |-> 1, e |-> e]

IsNaN(v) == v.k = "nan"

IsZero(v) == v.k = "frac" /\ v.num = 0

IsOne(v) == v.k = "frac" /\ v.num = v.den

\* count / np.float(n): 0 / 0.0 is NaN in numpy (a warning, no exception)
FloatDiv(count, n) == IF n = 0 THEN NaN ELSE Frac(count, n)

\* 1 - tolerance in double precision: the doubles next to 1.0 are 2^-53
\* apart, so 1 - 10^-e rounds to 1.0 as soon as 10^-e <= 2^-54, i.e. e >= 17
OneMinusTolerance(e) == IF e >= 17 THEN Frac(1, 1) ELSE BelowOne(e)

\* 1 - v in double precision
Complement(v) ==
    CASE v.k = "nan" -> NaN
      [] v.k = "frac" -> Frac(v.den - v.num, v.den)
      [] v.k = "tol" -> OneMinusTolerance(v.e)
      [] v.k = "1-tol" -> Tol(v.e)

(***************************************************************************)
(* Logarithms: NaN, -inf, or the finite value                              *)
(*   log(num/den) + a * log(10^-e) + b * log(1 - 10^-e)                    *)
(* Sums and comparisons of finite values are exact.                        *)
(***************************************************************************)
LogNaN == [k |-> "nan", a |-> 0, b |-> 0, num |-> 1, den |-> 1]

LogNegInf == [k |-> "ninf", a |-> 0, b |-> 0, num |-> 1, den |-> 1]

LogFin(a, b, num, den) == [k |-> "fin", a |-> a, b |-> b, num |-> num, den |-> den]

LogZero == LogFin(0, 0, 1, 1)

IsFinite(l) == l.k = "fin"

\* np.log(v); log(0) is -inf (a warning, no exception)
Log(v) ==
    CASE v.k = "nan" -> LogNaN
      [] v.k = "frac" -> IF v.num = 0 THEN LogNegInf ELSE LogFin(0, 0, v.num, v.den)
      [] v.k = "tol" -> LogFin(1, 0, 1, 1)
      [] v.k = "1-tol" -> LogFin(0, 1, 1, 1)

\* x * l for a feature value x in {0, 1}; 0 * -inf and 0 * NaN are NaN
LogTimes(x, l) ==
    IF x = 1 THEN l
    ELSE IF l.k = "fin" THEN LogZero ELSE LogNaN

LogAdd(l1, l2) ==
    IF l1.k = "nan" \/ l2.k = "nan" THEN LogNaN
    ELSE IF l1.k = "ninf" \/ l2.k = "ninf" THEN LogNegInf
    ELSE LogFin(l1.a + l2.a, l1.b + l2.b, l1.num * l2.num, l1.den * l2.den)

\* l1 > l2; a comparison with NaN is False. One factor 10^-e outweighs any
\* quotient of the small counts, which in turn outweighs the factors 1 - 10^-e
LogGreater(l1, l2) ==
    IF l1.k = "nan" \/ l2.k = "nan" THEN FALSE
    ELSE IF l1.k = "ninf" THEN FALSE
    ELSE IF l2.k = "ninf" THEN TRUE
    ELSE IF l1.a # l2.a THEN l1.a < l2.a
    ELSE IF l1.num * l2.den # l2.num * l1.den
         THEN l1.num * l2.den > l2.num * l1.den
    ELSE l1.b < l2.b

RECURSIVE LogSumTo(_, _)
LogSumTo(s, n) == IF n = 0 THEN LogZero ELSE LogAdd(LogSumTo(s, n - 1), s[n])

LogSum(s) == LogSumTo(s, Len(s))

(***************************************************************************)
(* Naive Bayes (classifiers/naivebayes.py)                                 *)
(***************************************************************************)
\* def process_parameters(p, tolerance=1e-10)
DefaultToleranceExp == 10

\* tolerance = 1e-30 in fit: assigned, never passed on
FitToleranceExp == 30

spam_label == 1

\* a seeded fault: NaN entries left as they are
ReplaceNaNSkipped(p, e) == p

\* p[np.isnan(p)] = tolerance
ReplaceNaN(p, e) == [d \in DOMAIN p |-> IF IsNaN(p[d]) THEN Tol(e) ELSE p[d]]

\* p[p == 0] = tolerance
ReplaceZero(p, e) == [d \in DOMAIN p |-> IF IsZero(p[d]) THEN Tol(e) ELSE p[d]]

\* p[p == 1] = 1 - tolerance
ReplaceOne(p, e) ==
    [d \in DOMAIN p |-> IF IsOne(p[d]) THEN OneMinusTolerance(e) ELSE p[d]]

process_parameters(p, e) == ReplaceOne(ReplaceZero(ReplaceNaN(p, e), e), e)

\* a seeded fault: fit's own tolerance handed to process_parameters
StabilizeWithFitTolerance(p) == process_parameters(p, FitToleranceExp)

\* map(process_parameters, [likeli_ham, likeli_spam]): the default tolerance
Stabilize(p) == process_parameters(p, DefaultToleranceExp)

\* np.nonzero(Y == label)[0], as 1-based row numbers
IndicesOf(Y, label) == {k \in DOMAIN Y : Y[k] = label}

\* np.sum(X[indices], axis=0) / np.float(len(indices))
Likelihood(X, indices, D) ==
    [d \in 1..D |->
        FloatDiv(Cardinality({k \in indices : X[k][d] = 1}), Cardinality(indices))]

\* fit(features, labels, ham_label, spam_label): no path of it raises
nb_fit(X, Y, ham_label, D) ==
    LET N == Len(X)
        prior_spam == FloatDiv(Cardinality(IndicesOf(Y, spam_label)), N)
    IN [status |-> "returned",
        prior_ham |-> Complement(prior_spam),
        prior_spam |-> prior_spam,
        likeli_ham |-> Stabilize(Likelihood(X, IndicesOf(Y, ham_label), D)),
        likeli_spam |-> Stabilize(Likelihood(X, IndicesOf(Y, spam_label), D))]

\* np.dot(x, l) for one row x of 0/1 values and a vector l of logarithms
LogDot(x, l) == LogSum([d \in DOMAIN x |-> LogTimes(x[d], l[d])])

\* np.log(prior) + np.dot(X, np.log(likeli)) + np.dot(1 - X, np.log(1 - likeli))
LogPosterior(X, prior, likeli) ==
    LET log_prior == Log(prior)
        log_likeli == [d \in DOMAIN likeli |-> Log(likeli[d])]
        log_complement == [d \in DOMAIN likeli |-> Log(Complement(likeli[d]))]
    IN [i \in DOMAIN X |->
           LogAdd(LogAdd(log_prior, LogDot(X[i], log_likeli)),
                  LogDot([d \in DOMAIN X[i] |-> 1 - X[i][d]], log_complement))]

\* a seeded fault: the relabelling applied to every ham label
RelabelAlways(predicted, ham_label) ==
    [i \in DOMAIN predicted |-> IF predicted[i] THEN 1 ELSE -1]

\* if ham_label == -1: predicted = predicted * 2 - 1; then .astype(int)
Relabel(predicted, ham_label) ==
    IF ham_label = -1
    THEN [i \in DOMAIN predicted |-> IF predicted[i] THEN 1 ELSE -1]
    ELSE [i \in DOMAIN predicted |-> IF predicted[i] THEN 1 ELSE 0]

nb_predict(X, parameters, ham_label) ==
    LET log_posterior_ham ==
            LogPosterior(X, parameters.prior_ham, parameters.likeli_ham)
        log_posterior_spam ==
            LogPosterior(X, parameters.prior_spam, parameters.likeli_spam)
    IN Relabel([i \in DOMAIN X |->
                   LogGreater(log_posterior_spam[i], log_posterior_ham[i])],
               ham_label)

RECURSIVE AllRows(_)
\* x_test: every binary feature vector of d features, one per row
AllRows(d) ==
    IF d = 0 THEN << <<>> >>
    ELSE LET shorter == AllRows(d - 1)
         IN [r \in 1..(2 * Len(shorter)) |->
                IF r <= Len(shorter) THEN Append(shorter[r], 0)
                ELSE Append(shorter[r - Len(shorter)], 1)]

NoParameters ==
    [status |-> "none", prior_ham |-> NaN, prior_spam |-> NaN,
     likeli_ham |-> <<>>, likeli_spam |-> <<>>]

NBIdle ==
    /\ n_pc = "idle"
    /\ n_X = <<>>
    /\ n_Y = <<>>
    /\ n_ham_label = 0
    /\ n_parameters = NoParameters
    /\ n_fitted = NoParameters
    /\ n_predicted = <<>>
    /\ n_predictedAlt = <<>>

\* a number for a labelled example: the label, then the features as bits
ExampleCode(x, label) ==
    SumSeq([d \in DOMAIN x |-> x[d] * 2 ^ (d - 1)])
        + (IF label = spam_label THEN 2 ^ Len(x) ELSE 0)

\* The training sets: fit reads the rows only through np.sum over the rows of
\* a class, so one order of each collection of labelled rows stands for all
\* of its orders; the rows are listed by increasing ExampleCode.
NBInit ==
    /\ n_pc = "fit"
    /\ n_ham_label \in {0, -1}
    /\ \E n \in 1..MaxLen :
         /\ n_X \in BinMatrix(n, MaxD)
         /\ n_Y \in [1..n -> {n_ham_label, spam_label}]
    /\ \A k \in 1..(Len(n_X) - 1) :
         ExampleCode(n_X[k], n_Y[k]) <= ExampleCode(n_X[k + 1], n_Y[k + 1])
    /\ n_parameters = NoParameters
    /\ n_fitted = NoParameters
    /\ n_predicted = <<>>
    /\ n_predictedAlt = <<>>

\* weights = fit(x, y, ham_label); n_fitted keeps what fit returned
NBFit ==
    /\ n_pc = "fit"
    /\ n_parameters' = nb_fit(n_X, n_Y, n_ham_label, MaxD)
    /\ n_fitted' = n_parameters'
    /\ n_pc' = "predict"
    /\ UNCHANGED <<n_X, n_Y, n_ham_label, n_predicted, n_predictedAlt,
                   metricsVars, bootVars, predVars, fitVars>>

\* predictions = predict(x_test, weights), with the default ham_label = 0
NBPredict ==
    /\ n_pc = "predict"
    /\ n_predicted' = nb_predict(AllRows(MaxD), n_parameters, 0)
    /\ n_pc' = "predict_alt"
    /\ UNCHANGED <<n_X, n_Y, n_ham_label, n_parameters, n_fitted,
                   n_predictedAlt, metricsVars, bootVars, predVars, fitVars>>

\* the same call once more, with ham_label=-1
NBPredictAlt ==
    /\ n_pc = "predict_alt"
    /\ n_predictedAlt' = nb_predict(AllRows(MaxD), n_parameters, -1)
    /\ n_pc' = "done"
    /\ UNCHANGED <<n_X, n_Y, n_ham_label, n_parameters, n_fitted,
                   n_predicted, metricsVars, bootVars, predVars, fitVars>>

(***************************************************************************)
(* Logistic regression (logisticReg.py)                                    *)
(*                                                                         *)
(* The doubles of theta and of X.theta are kept on a grid of 1/Scale, the  *)
(* probabilities on a grid of 1/ProbUnit; exp is not computed: sigmoid     *)
(* interpolates between tabulated values of 1 / (1 + exp(-z)).             *)
(***************************************************************************)
Scale == 1000

ProbUnit == 1000000

\* alpha=.1
AlphaDen == 10

\* threshold=1e-5
ThresholdDen == 100000

\* probs > 0.5
Half == ProbUnit \div 2

\* 1 / (1 + exp(-z)) at z = 0, 1, ..., 8, in units of 1/ProbUnit
SigmoidTable == <<500000, 731059, 880797, 952574, 982014, 993307, 997527,
                  999089, 999665>>

SigmoidOfNonNegative(z) ==
    LET k == z \div Scale
        r == z % Scale
    IN IF k + 2 > Len(SigmoidTable) THEN SigmoidTable[Len(SigmoidTable)]
       ELSE SigmoidTable[k + 1]
                + ((SigmoidTable[k + 2] - SigmoidTable[k + 1]) * r) \div Scale

\* np.divide(1, 1 + np.exp(-z))
sigmoid(z) ==
    IF z >= 0 THEN SigmoidOfNonNegative(z)
    ELSE ProbUnit - SigmoidOfNonNegative(-z)

\* np.insert(X, 0, 1, axis=1)
addBias(X) == [k \in DOMAIN X |-> <<1>> \o X[k]]

\* np.dot(x, theta)
Dot(x, theta) == SumSeq([d \in DOMAIN x |-> x[d] * theta[d]])

\* a / b rounded to the nearest integer
RoundDiv(a, b) == (2 * a + b) \div (2 * b)

\* theta - alpha * (sigmoid(x.theta) - y) * x
gradient_update(theta, x, y) ==
    LET s == sigmoid(Dot(x, theta))
        grad == [d \in DOMAIN x |-> (s - y * ProbUnit) * x[d]]
    IN [d \in DOMAIN theta |->
           theta[d] - RoundDiv(grad[d], AlphaDen * (ProbUnit \div Scale))]

\* probs = sigmoid(np.dot(X, theta)), after the optional addBias
predictSoft(X, theta, add_bias) ==
    LET Xb == IF add_bias THEN addBias(X) ELSE X
    IN [k \in DOMAIN Xb |-> sigmoid(Dot(Xb[k], theta))]

\* a seeded fault: ties at 0.5 labelled 1
predictTiesToOne(X, theta, add_bias) ==
    LET Xb == IF add_bias THEN addBias(X) ELSE X
    IN [k \in DOMAIN Xb |-> IF sigmoid(Dot(Xb[k], theta)) >= Half THEN 1 ELSE 0]

\* predictions = zeros; predictions[probs > 0.5] = 1
predict(X, theta, add_bias) ==
    LET Xb == IF add_bias THEN addBias(X) ELSE X
    IN [k \in DOMAIN Xb |-> IF sigmoid(Dot(Xb[k], theta)) > Half THEN 1 ELSE 0]

(* ---- a caller of predict and predictSoft ---- *)
\* weights tried by the caller, in units of 1/Scale
ThetaValues == {-Scale, -1, 0, 1, Scale}

PredictIdle ==
    /\ p_pc = "idle"
    /\ p_X = <<>>
    /\ p_theta = <<>>
    /\ p_add_bias = FALSE
    /\ p_predictions = <<>>
    /\ p_probs = <<>>

\* X holds every feature vector once; with add_bias = False the caller
\* passes a matrix that already has one column per entry of theta
PredictInit ==
    /\ p_pc = "start"
    /\ p_add_bias \in BOOLEAN
    /\ p_X = IF p_add_bias THEN AllRows(MaxD) ELSE AllRows(MaxD + 1)
    /\ p_theta \in [1..(MaxD + 1) -> ThetaValues]
    /\ p_predictions = <<>>
    /\ p_probs = <<>>

\* pred = predict(x, w, add_bias)
CallPredict ==
    /\ p_pc = "start"
    /\ p_predictions = <<>>
    /\ p_predictions' = predict(p_X, p_theta, p_add_bias)
    /\ p_pc' = IF p_probs = <<>> THEN "start" ELSE "done"
    /\ UNCHANGED <<p_X, p_theta, p_add_bias, p_probs,
                   metricsVars, bootVars, nbVars, fitVars>>

\* probs = predictSoft(x, w, add_bias)
CallPredictSoft ==
    /\ p_pc = "start"
    /\ p_probs = <<>>
    /\ p_probs' = predictSoft(p_X, p_theta, p_add_bias)
    /\ p_pc' = IF p_predictions = <<>> THEN "start" ELSE "done"
    /\ UNCHANGED <<p_X, p_theta, p_add_bias, p_predictions,
                   metricsVars, bootVars, nbVars, fitVars>>

(* ---- fit ---- *)
\* the outcomes of np.random.permutation(N), as 1-based row numbers
permutation(N) ==
    {q \in [1..N -> 1..N] : \A a, b \in 1..N : q[a] = q[b] => a = b}

\* a seeded fault: the permutation drawn anew in every epoch
EpochPermutationsReshuffled(perm) == permutation(Len(perm))

\* the permutation an epoch uses: perm, which the loop never assigns
EpochPermutations(perm) == {perm}

\* X[perm,:]
PermuteX(X, perm) == [k \in DOMAIN perm |-> X[perm[k]]]

\* a seeded fault: the labels left in place
PermuteYSkipped(y, perm) == y

\* y[perm,:]
PermuteY(y, perm) == [k \in DOMAIN perm |-> y[perm[k]]]

\* a seeded fault: the previous error starting at 0
InitialLastErrorZero == [num |-> 0, den |-> 1]

\* last_epoch_error = 1e6
InitialLastError == [num |-> 1000000, den |-> 1]

\* np.abs(last_epoch_error - epoch_error) < threshold, on rationals:
\* |a - b| = d / q with d, q integers, and d / q < 1 / ThresholdDen
WithinThreshold(a, b) ==
    LET d == a.num * b.den - b.num * a.den
        q == a.den * b.den
        absd == IF d < 0 THEN -d ELSE d
    IN absd <= (q - 1) \div ThresholdDen

FitIdle ==
    /\ f_pc = "idle"
    /\ f_X0 = <<>>
    /\ f_y0 = <<>>
    /\ f_epochs = 0
    /\ f_X = <<>>
    /\ f_y = <<>>
    /\ f_theta = <<>>
    /\ f_perm = <<>>
    /\ f_i = 0
    /\ f_j = 0
    /\ f_epoch_errors = <<>>
    /\ f_last_epoch_error = NoError
    /\ f_result = <<>>
    /\ f_drawn = <<>>
    /\ f_rowOfX = <<>>
    /\ f_rowOfY = <<>>
    /\ f_visits = <<>>
    /\ f_orders = <<>>
    /\ f_updates = 0

\* the call fit(X, y, epochs=...), alpha and threshold at their defaults.
\* f_X0, f_y0 keep the caller's data and f_drawn the permutation as drawn;
\* f_rowOfX, f_rowOfY, f_visits, f_orders and f_updates record, for the
\* claims, which of the caller's rows the working rows are and which rows
\* the gradient steps used.
FitInit ==
    /\ f_pc = "start"
    /\ f_X0 \in BinMatrix(FitN, FitD)
    /\ f_y0 \in BinVec(FitN)
    /\ f_epochs \in 1..MaxEpochs
    /\ f_X = f_X0
    /\ f_y = f_y0
    /\ f_theta = <<>>
    /\ f_perm = <<>>
    /\ f_i = 0
    /\ f_j = 0
    /\ f_epoch_errors = <<>>
    /\ f_last_epoch_error = NoError
    /\ f_result = <<>>
    /\ f_drawn = <<>>
    /\ f_rowOfX = [k \in 1..FitN |-> k]
    /\ f_rowOfY = [k \in 1..FitN |-> k]
    /\ f_visits = <<>>
    /\ f_orders = <<>>
    /\ f_updates = 0

(* where fit stands: the guards of its steps *)
AtStart == f_pc = "start"

\* for i in range(epochs): another pass
LoopContinues == f_pc = "epoch" /\ f_i < f_epochs

\* for i in range(epochs): used up
LoopExhausted == f_pc = "epoch" /\ f_i >= f_epochs

\* for j in range(N): another example
MoreExamples == f_pc = "update" /\ f_j < Len(f_X)

\* for j in range(N): used up
EpochComplete == f_pc = "update" /\ f_j >= Len(f_X)

\* the loop was left, by break or by exhaustion, and theta is not yet returned
AtReturn == f_pc \in {"Converged", "ExhaustedEpochs"} /\ f_result = <<>>

\* X = addBias(X) ... perm = np.random.permutation(N)
FitSetup ==
    /\ AtStart
    /\ f_X' = addBias(f_X)
    /\ f_theta' = [d \in 1..(FitD + 1) |-> 0]
    /\ f_epoch_errors' = [e \in 1..f_epochs |-> [num |-> 0, den |-> 1]]
    /\ f_last_epoch_error' = InitialLastError
    /\ f_perm' \in permutation(Len(f_X))
    /\ f_drawn' = f_perm'
    /\ f_pc' = "epoch"
    /\ UNCHANGED <<f_X0, f_y0, f_epochs, f_y, f_i, f_j, f_result, f_rowOfX,
                   f_rowOfY, f_visits, f_orders, f_updates,
                   metricsVars, bootVars, nbVars, predVars>>

\* for i in range(epochs): X = X[perm,:]; y = y[perm,:]
BeginEpoch ==
    /\ LoopContinues
    /\ f_perm' \in EpochPermutations(f_perm)
    /\ f_X' = PermuteX(f_X, f_perm')
    /\ f_y' = PermuteY(f_y, f_perm')
    /\ f_rowOfX' = PermuteX(f_rowOfX, f_perm')
    /\ f_rowOfY' = PermuteY(f_rowOfY, f_perm')
    /\ f_j' = 0
    /\ f_visits' = <<>>
    /\ f_pc' = "update"
    /\ UNCHANGED <<f_drawn, f_X0, f_y0, f_epochs, f_theta, f_i, f_epoch_errors,
                   f_last_epoch_error, f_result, f_orders, f_updates,
                   metricsVars, bootVars, nbVars, predVars>>

\* for j in range(N): theta = gradient_update(theta, X[j,:], y[j], alpha)
GradientStep ==
    /\ MoreExamples
    /\ f_theta' = gradient_update(f_theta, f_X[f_j + 1], f_y[f_j + 1])
    /\ f_j' = f_j + 1
    /\ f_visits' = Append(f_visits, [row |-> f_rowOfX[f_j + 1],
                                     x |-> f_X[f_j + 1], y |-> f_y[f_j + 1]])
    /\ f_updates' = f_updates + 1
    /\ UNCHANGED <<f_drawn, f_pc, f_X0, f_y0, f_epochs, f_X, f_y, f_perm, f_i,
                   f_epoch_errors, f_last_epoch_error, f_result, f_rowOfX,
                   f_rowOfY, f_orders, metricsVars, bootVars, nbVars, predVars>>

\* epoch_errors[i,:] = computeError(y, predict(X, theta, False)), then the
\* test of the threshold: break, or last_epoch_error = epoch_errors[i]
EndEpoch ==
    /\ EpochComplete
    /\ LET error == computeError(f_y, predict(f_X, f_theta, FALSE))
       IN /\ f_epoch_errors' = [f_epoch_errors EXCEPT ![f_i + 1] = error]
          /\ IF WithinThreshold(f_last_epoch_error, error)
             THEN /\ f_pc' = "Converged"
                  /\ UNCHANGED <<f_last_epoch_error, f_i>>
             ELSE /\ f_pc' = "epoch"
                  /\ f_last_epoch_error' = error
                  /\ f_i' = f_i + 1
    /\ f_orders' = Append(f_orders, [k \in DOMAIN f_visits |-> f_visits[k].row])
    /\ UNCHANGED <<f_drawn, f_X0, f_y0, f_epochs, f_X, f_y, f_theta, f_perm,
                   f_j, f_result, f_rowOfX, f_rowOfY, f_visits, f_updates,
                   metricsVars, bootVars, nbVars, predVars>>

\* range(epochs) is used up
ExhaustEpochs ==
    /\ LoopExhausted
    /\ f_pc' = "ExhaustedEpochs"
    /\ UNCHANGED <<f_drawn, f_X0, f_y0, f_epochs, f_X, f_y, f_theta, f_perm, f_i, f_j,
                   f_epoch_errors, f_last_epoch_error, f_result, f_rowOfX,
                   f_rowOfY, f_visits, f_orders, f_updates,
                   metricsVars, bootVars, nbVars, predVars>>

\* return theta
FitReturn ==
    /\ AtReturn
    /\ f_result' = f_theta
    /\ UNCHANGED <<f_drawn, f_pc, f_X0, f_y0, f_epochs, f_X, f_y, f_theta, f_perm, f_i,
                   f_j, f_epoch_errors, f_last_epoch_error, f_rowOfX,
                   f_rowOfY, f_visits, f_orders, f_updates,
                   metricsVars, bootVars, nbVars, predVars>>

(***************************************************************************)
(* Specifications                                                          *)
(***************************************************************************)
InitMetrics == MetricsInit /\ BootIdle /\ NBIdle /\ PredictIdle /\ FitIdle

NextMetrics == CallComputeError \/ CallComputeMetrics

SpecMetrics == InitMetrics /\ [][NextMetrics]_vars

InitBoot == BootInit /\ MetricsIdle /\ NBIdle /\ PredictIdle /\ FitIdle

NextBoot == DrawIndices \/ FirstRow \/ AppendRow \/ ReturnReplicate

SpecBoot == InitBoot /\ [][NextBoot]_vars

InitNB == NBInit /\ MetricsIdle /\ BootIdle /\ PredictIdle /\ FitIdle

NextNB == NBFit \/ NBPredict \/ NBPredictAlt

SpecNB == InitNB /\ [][NextNB]_vars

InitPredict == PredictInit /\ MetricsIdle /\ BootIdle /\ NBIdle /\ FitIdle

NextPredict == CallPredict \/ CallPredictSoft

SpecPredict == InitPredict /\ [][NextPredict]_vars

InitFit == FitInit /\ MetricsIdle /\ BootIdle /\ NBIdle /\ PredictIdle

NextFit ==
    FitSetup \/ BeginEpoch \/ GradientStep \/ EndEpoch \/ ExhaustEpochs
        \/ FitReturn

SpecFit == InitFit /\ [][NextFit]_vars

(***************************************************************************)
(* Claims: metrics engine                                                  *)
(***************************************************************************)
\* C3 (as stated): for every label vector y and every prediction vector of
\* the same length, single-label inputs included, computeMetrics returns four
\* counts TP, FP, FN, TN with TP + FP + FN + TN = len(y).
C3_MetricsSumToLen ==
    m_pc = "metrics_done" =>
        /\ m_metrics.status = "ok"
        /\ m_metrics.TP + m_metrics.FP + m_metrics.FN + m_metrics.TN = Len(m_y)

\* C9: computeError(y, predictions) is the fraction of positions where y and
\* predictions differ, a value in [0,1]; it is 0 for predictions = y and 1 for
\* predictions = 1 - y.
C9_ErrorIsMismatchFraction ==
    m_pc # "start" =>
        /\ m_error.den = Len(m_y)
        /\ m_error.num =
              Cardinality({k \in 1..Len(m_y) : m_y[k] # m_predictions[k]})
        /\ 0 <= m_error.num /\ m_error.num <= m_error.den
        /\ (m_predictions = m_y => m_error.num = 0)
        /\ (m_predictions = [k \in 1..Len(m_y) |-> 1 - m_y[k]]
               => m_error.num = m_error.den)

\* C9 witness: the error of a mixed label vector against its complement has
\* been computed.
C9_Witness ==
    /\ m_pc = "error_done"
    /\ Len(m_y) = MaxLen
    /\ Range(m_y) = {0, 1}
    /\ m_predictions = [k \in 1..Len(m_y) |-> 1 - m_y[k]]
    /\ m_error.num = m_error.den

(***************************************************************************)
(* Claims: Naive Bayes                                                     *)
(***************************************************************************)
LikelihoodEntries ==
    Range(n_parameters.likeli_ham) \cup Range(n_parameters.likeli_spam)

EmptyClass ==
    IndicesOf(n_Y, n_ham_label) = {} \/ IndicesOf(n_Y, spam_label) = {}

\* C2 (as stated): fit fails with InsufficientData, returning no parameters,
\* whenever no row of y equals ham_label or no row of y equals spam_label.
C2_FailsOnEmptyClass ==
    (n_pc # "fit" /\ EmptyClass) => n_parameters.status = "InsufficientData"

\* C2 (amended): fit returns parameters for every y; a class without rows
\* gets the prior 0 and the tolerance in every likelihood entry.
C2_ReturnsOnEmptyClass ==
    n_pc # "fit" =>
        /\ n_parameters.status = "returned"
        /\ IndicesOf(n_Y, n_ham_label) = {} =>
              /\ IsZero(n_parameters.prior_ham)
              /\ \A d \in 1..MaxD :
                    n_parameters.likeli_ham[d] = Tol(DefaultToleranceExp)
        /\ IndicesOf(n_Y, spam_label) = {} =>
              /\ IsZero(n_parameters.prior_spam)
              /\ \A d \in 1..MaxD :
                    n_parameters.likeli_spam[d] = Tol(DefaultToleranceExp)

\* C2 witness: fit has returned parameters for labels that are all ham.
C2_Witness ==
    /\ n_pc = "predict"
    /\ Len(n_Y) = MaxLen
    /\ IndicesOf(n_Y, spam_label) = {}
    /\ n_parameters.status = "returned"

\* C7: predict leaves the parameters as fit returned them, and ham_label = -1
\* only relabels the output: an example is 1 under ham_label = -1 exactly
\* when it is 1 under ham_label = 0, and -1 exactly when it is 0.
C7_RelabelOnly ==
    /\ n_pc \in {"predict", "predict_alt", "done"} => n_parameters = n_fitted
    /\ n_pc = "done" =>
          /\ DOMAIN n_predicted = DOMAIN n_predictedAlt
          /\ \A i \in DOMAIN n_predicted :
                /\ n_predictedAlt[i] = 1 <=> n_predicted[i] = 1
                /\ n_predictedAlt[i] = -1 <=> n_predicted[i] = 0

\* C7 witness: both predictions are made and call some example spam and
\* some example ham.
C7_Witness ==
    /\ n_pc = "done"
    /\ \E i \in DOMAIN n_predicted : n_predicted[i] = 1 /\ n_predictedAlt[i] = 1
    /\ \E i \in DOMAIN n_predicted : n_predicted[i] = 0 /\ n_predictedAlt[i] = -1

(***************************************************************************)
(* Claims: logistic regression                                             *)
(***************************************************************************)
\* C8: predict(X, theta)[i] = 1 exactly when predictSoft(X, theta)[i] > 0.5;
\* an example whose soft score is exactly 0.5 (as under theta = 0) is
\* labelled 0.
C8_HardIffSoftAboveHalf ==
    p_pc = "done" =>
        /\ DOMAIN p_predictions = DOMAIN p_probs
        /\ \A i \in DOMAIN p_predictions :
              /\ p_predictions[i] \in {0, 1}
              /\ p_predictions[i] = 1 <=> 2 * p_probs[i] > ProbUnit
              /\ (\A d \in DOMAIN p_theta : p_theta[d] = 0) =>
                    2 * p_probs[i] = ProbUnit /\ p_predictions[i] = 0

\* C8 witness: with a non-zero theta, one example scores exactly 0.5 and is
\* labelled 0 and another is labelled 1.
C8_Witness ==
    /\ p_pc = "done"
    /\ \E d \in DOMAIN p_theta : p_theta[d] # 0
    /\ \E i \in DOMAIN p_probs : 2 * p_probs[i] = ProbUnit /\ p_predictions[i] = 0
    /\ \E i \in DOMAIN p_probs : p_predictions[i] = 1

\* the number of epochs run to their end
EpochsDone == Len(f_orders)

\* the error of epoch e (1-based) is within the threshold of the error of
\* the epoch before it; both errors are counts over the N examples
ErrorSettledAt(e) ==
    /\ e >= 2
    /\ LET d == f_epoch_errors[e].num - f_epoch_errors[e - 1].num
       IN (IF d < 0 THEN -d ELSE d) * ThresholdDen < Len(f_X)

FitTerminal == f_pc \in {"Converged", "ExhaustedEpochs"}

\* the steps fit has taken: it grows with every step and is bounded
FitMeasure ==
    (IF f_pc = "start" THEN 0 ELSE 1)
        + (IF f_pc = "update" THEN 1 ELSE 0) + 2 * EpochsDone + f_updates
        + (IF FitTerminal THEN 1 ELSE 0) + (IF f_result # <<>> THEN 1 ELSE 0)

C4_Inv ==
    /\ f_pc \in {"epoch", "update"} =>
          \A e \in 1..EpochsDone : ~ErrorSettledAt(e)
    /\ f_pc = "Converged" =>
          /\ EpochsDone <= f_epochs
          /\ ErrorSettledAt(EpochsDone)
          /\ \A e \in 1..(EpochsDone - 1) : ~ErrorSettledAt(e)
          /\ f_updates = EpochsDone * Len(f_X)
    /\ f_pc = "ExhaustedEpochs" =>
          /\ EpochsDone = f_epochs
          /\ \A e \in 1..EpochsDone : ~ErrorSettledAt(e)
          /\ f_updates = f_epochs * Len(f_X)
    /\ f_result # <<>> => FitTerminal /\ f_result = f_theta
    /\ f_result = <<>> =>
          \/ AtStart \/ LoopContinues \/ LoopExhausted
          \/ MoreExamples \/ EpochComplete \/ AtReturn
    /\ FitMeasure <= 4 + f_epochs * (Len(f_X0) + 2)

C4_Step ==
    /\ FitMeasure' > FitMeasure
    /\ FitTerminal =>
          /\ f_pc' = f_pc
          /\ f_theta' = f_theta
          /\ f_updates' = f_updates
          /\ f_result' = f_theta

\* C4: fit always ends in Converged, right after the first epoch whose error
\* is within the threshold of the previous epoch's error, or in
\* ExhaustedEpochs, after exactly `epochs` epochs none of which was; no
\* gradient step follows, and the theta of that state is returned. (It
\* always ends: until it returns the guard of one of its steps holds, and
\* every step adds to a bounded count of steps.)
C4_TerminatesConvergedOrExhausted == []C4_Inv /\ [][C4_Step]_vars

\* C4 witness: fit has converged before its epochs ran out and has returned
\* theta.
C4_Witness ==
    /\ f_pc = "Converged"
    /\ EpochsDone < f_epochs
    /\ f_result = f_theta

RECURSIVE PermPower(_, _)
\* perm applied k times to the caller's order of rows
PermPower(perm, k) ==
    IF k = 0 THEN [j \in DOMAIN perm |-> j]
    ELSE LET before == PermPower(perm, k - 1)
         IN [j \in DOMAIN perm |-> before[perm[j]]]

\* C5 (as stated): the permutation is drawn once, before the epoch loop, and
\* the gradient steps visit the training examples in the same order in
\* every epoch of a run.
C5_SameOrderEveryEpoch ==
    /\ f_pc \notin {"idle", "start"} => f_perm = f_drawn
    /\ \A a, b \in DOMAIN f_orders : f_orders[a] = f_orders[b]

\* C5 (amended): the permutation is drawn once and never redrawn, and it is
\* applied in every epoch to the rows as the epoch before left them: epoch k
\* visits the caller's rows in the order perm applied k times.
C5_OrderIsPermComposed ==
    /\ f_pc \notin {"idle", "start"} => f_perm = f_drawn
    /\ \A k \in DOMAIN f_orders : f_orders[k] = PermPower(f_drawn, k)

\* C5 witness: two epochs have run and visited the examples in different
\* orders.
C5_Witness ==
    /\ Len(f_orders) >= 2
    /\ f_orders[1] # f_orders[2]
    /\ f_perm = f_drawn

\* C10: the working X and y are always the same reordering of the caller's
\* training set, row j of X with the label supplied for it, and in each
\* epoch every (example, label) pair gets exactly one gradient step.
C10_RowsStayPaired ==
    f_pc \notin {"idle", "start"} =>
        /\ f_rowOfX = f_rowOfY
        /\ Range(f_rowOfX) = 1..Len(f_X0)
        /\ \A j \in 1..Len(f_X) :
              /\ f_X[j] = addBias(f_X0)[f_rowOfX[j]]
              /\ f_y[j] = f_y0[f_rowOfX[j]]
        /\ \A v \in DOMAIN f_visits :
              /\ f_visits[v].x = addBias(f_X0)[f_visits[v].row]
              /\ f_visits[v].y = f_y0[f_visits[v].row]
              /\ \A w \in DOMAIN f_visits :
                    f_visits[v].row = f_visits[w].row => v = w
        /\ (f_pc # "update" /\ EpochsDone > 0) \/ (f_pc = "update" /\ f_j = Len(f_X))
              => {f_visits[v].row : v \in DOMAIN f_visits} = 1..Len(f_X0)

\* C10 witness: the second epoch of a fit whose permutation moves rows has
\* made all its gradient steps, the permutation having been applied a second
\* time to the rows it had already moved, over examples whose labels differ.
C10_Witness ==
    /\ f_pc = "update"
    /\ f_j = Len(f_X)
    /\ EpochsDone = 1
    /\ Len(f_visits) = Len(f_X0)
    /\ f_perm # PermPower(f_perm, 0)
    /\ f_rowOfX = PermPower(f_perm, 2)
    /\ Range(f_y0) = {0, 1}

(***************************************************************************)
(* Claims: bootstrap resampler                                             *)
(***************************************************************************)
\* C6: generateReplicate(X, n_draws) returns exactly n_draws rows, the i-th
\* being X[indices[i]] in draw order, and leaves X unchanged.
C6_ReplicateFollowsDraws ==
    /\ b_X = b_X0
    /\ b_pc = "done" =>
        /\ Len(b_replicate) = b_new_instances
        /\ \A k \in 1..b_new_instances :
              /\ b_indices[k] \in 0..(Len(b_X) - 1)
              /\ b_replicate[k] = b_X[b_indices[k] + 1]

\* C6 witness: a finished replicate whose draws repeat an index and are not
\* in increasing order, over a base matrix with distinct rows.
C6_Witness ==
    /\ b_pc = "done"
    /\ b_new_instances >= 3
    /\ b_indices[1] > b_indices[2]
    /\ b_indices[3] = b_indices[1]
    /\ b_X[1] # b_X[2]

====
